---- MODULE Spec2Model ----
(***************************************************************************)
(* DARF -> CNAB-240 converter (lenonbergmanndev/conversordetributos).      *)
(*                                                                         *)
(* Strings are sequences of one-character strings, so that padding,        *)
(* slicing, splitting and the regular expressions of the source are        *)
(* computed character by character.  Monetary amounts are the 2-decimal    *)
(* numbers normalizeNumber returns (Number(parsed.toFixed(2))); they are   *)
(* held as a signed integer number of cents, so Math.round(value * 100)    *)
(* is the held integer.                                                    *)
(***************************************************************************)
EXTENDS Integers, Sequences, FiniteSets, TLC

VARIABLES
    \* generateSantanderRemittance (src/src/utils/remittance.ts)
    company,        \* the CompanyInfo argument
    darfs,          \* the DarfRecord[] argument
    clock,          \* the wall clock: index into Days of the value new Date() returns
    creationDate,   \* const creationDate = new Date()
    sequential,     \* let sequential = 1
    headerArquivo,
    headerLote,
    detailLines,
    trailerLote,
    trailerArquivo,
    remittance,     \* the returned string, lines.join("\r\n")
    encPc,          \* position inside generateSantanderRemittance
    \* one call of padValue (src/src/utils/remittance.ts)
    padInput,       \* value
    padSize,        \* size
    padOptions,     \* options
    padOutput,      \* the returned string
    padPc,
    \* one call of normalizeNumber (src/src/app/api/darfs/parse/route.ts)
    numInput,       \* value
    numResult,      \* the returned number, in cents
    numPc,
    \* parseDarfs (src/src/app/api/darfs/parse/route.ts)
    text,           \* the argument
    blocks,         \* const blocks = parseBlocks(text)
    blockIndex,     \* position of for (const block of blocks), from 1
    lines,          \* const lines of the block at hand
    lineIndex,      \* the loop index i, counted from 1
    current,        \* let current: Partial<DarfRecord>
    parsedDarfs,    \* const darfs: DarfRecord[] of parseDarfs
    result,         \* the value the last call returned
    previous,       \* the value the call before it returned
    runs,           \* number of calls started on text
    issued,         \* number of identifiers randomUUID has returned
    parsePc,
    \* one call of toCnabNumber (src/src/utils/remittance.ts)
    cnabValue,      \* value, in cents
    cnabLength,     \* length
    cnabOutput,     \* the returned string
    cnabPc,
    \* the page Home (src/unnamed/part_000)
    pageCompany,        \* const [company, setCompany]
    pageDarfs,          \* const [darfs, setDarfs]
    isUploading,
    errorMessage,
    validationMessage,
    upload,             \* the request of handleFileUpload and its response
    download            \* the file the last link.click() delivered

encVars == <<company, darfs, clock, creationDate, sequential, headerArquivo,
             headerLote, detailLines, trailerLote, trailerArquivo, remittance, encPc>>

padVars == <<padInput, padSize, padOptions, padOutput, padPc>>

numVars == <<numInput, numResult, numPc>>

parseVars == <<text, blocks, blockIndex, lines, lineIndex, current, parsedDarfs,
               result, previous, runs, issued, parsePc>>

cnabVars == <<cnabValue, cnabLength, cnabOutput, cnabPc>>

pageVars == <<pageCompany, pageDarfs, isUploading, errorMessage, validationMessage,
              upload, download>>

vars == <<encVars, padVars, numVars, parseVars, cnabVars, pageVars>>

----------------------------------------------------------------------------
(* Bounds of the model *)

MaxRecords == 3

\* Longest value handed to padValue on its own, and widest field
MaxPadLen == 3

MaxPadSize == 3

\* Longest string of NumAlphabet handed to normalizeNumber
MaxNumLen == 4

\* Most slips in the text handed to parseDarfs
MaxSlips == 2

\* Most calls of parseDarfs on the same text
MaxRuns == 2

\* Largest amount, in cents and either sign, handed to toCnabNumber on its
\* own besides the amounts of SampleDarfs
MaxCents == 30

----------------------------------------------------------------------------
(* Characters *)

CR == "\r"
LF == "\n"
SP == " "

DigitChars == <<"0", "1", "2", "3", "4", "5", "6", "7", "8", "9">>

Digits == {DigitChars[i] : i \in 1..10}

LowerChars == <<"a", "b", "c", "d", "e", "f", "g", "h", "i", "j", "k", "l", "m",
                "n", "o", "p", "q", "r", "s", "t", "u", "v", "w", "x", "y", "z">>

UpperChars == <<"A", "B", "C", "D", "E", "F", "G", "H", "I", "J", "K", "L", "M",
                "N", "O", "P", "Q", "R", "S", "T", "U", "V", "W", "X", "Y", "Z">>

\* \d
IsDigit(c) == c \in Digits

\* \D
NotDigit(c) == ~IsDigit(c)

\* \s, over the characters of the model
IsSpace(c) == c \in {SP, LF, CR, "\t"}

\* String.prototype.toUpperCase on one character
UpperChar(c) ==
    IF \E i \in 1..26 : LowerChars[i] = c
    THEN UpperChars[CHOOSE i \in 1..26 : LowerChars[i] = c]
    ELSE c

toUpperCase(s) == [i \in 1..Len(s) |-> UpperChar(s[i])]

\* String.prototype.trim
RECURSIVE trimStart(_)
trimStart(s) == IF s # <<>> /\ IsSpace(Head(s)) THEN trimStart(Tail(s)) ELSE s

RECURSIVE trimEnd(_)
trimEnd(s) ==
    IF s # <<>> /\ IsSpace(s[Len(s)]) THEN trimEnd(SubSeq(s, 1, Len(s) - 1)) ELSE s

trim(s) == trimEnd(trimStart(s))

\* filler.repeat(n), for a one-character filler
Repeat(c, n) == [i \in 1..n |-> c]

\* String(n) for an integer n
RECURSIVE NatToStr(_)
NatToStr(n) ==
    IF n < 10 THEN <<DigitChars[n + 1]>>
    ELSE NatToStr(n \div 10) \o <<DigitChars[(n % 10) + 1]>>

IntToStr(n) == IF n < 0 THEN <<"-">> \o NatToStr(0 - n) ELSE NatToStr(n)

\* String.prototype.padStart / padEnd with a one-character filler
padStart(s, size, filler) ==
    IF Len(s) >= size THEN s ELSE Repeat(filler, size - Len(s)) \o s

padEnd(s, size, filler) ==
    IF Len(s) >= size THEN s ELSE s \o Repeat(filler, size - Len(s))

\* s.slice(-size), size > 0
sliceLast(s, size) == IF Len(s) <= size THEN s ELSE SubSeq(s, Len(s) - size + 1, Len(s))

\* s.slice(0, size)
sliceFirst(s, size) == IF Len(s) <= size THEN s ELSE SubSeq(s, 1, size)

----------------------------------------------------------------------------
(* src/src/utils/remittance.ts *)

\* The options argument of padValue: a record that may lack either field.
NoOptions == [k \in {} |-> ""]

RightZero == [align |-> "right", filler |-> "0"]

padValue_leftAligned(value, size, options) ==
    LET filler == IF "filler" \in DOMAIN options THEN options["filler"] ELSE SP
    IN  sliceFirst(padEnd(value, size, filler), size)

padValue(value, size, options) ==
    LET align  == IF "align" \in DOMAIN options THEN options["align"] ELSE "left"
        filler == IF "filler" \in DOMAIN options THEN options["filler"]
                  ELSE IF align = "left" THEN SP ELSE "0"
    IN  IF align = "right"
        THEN sliceLast(padStart(value, size, filler), size)
        ELSE sliceFirst(padEnd(value, size, filler), size)

sanitizeNumber(value) == SelectSeq(value, IsDigit)

\* The instants new Date() can return, in the order the clock passes them:
\* the calendar day changes between the second and the third.
Days == << [day |-> 31, month |-> 12, year |-> 1999, hours |-> 23, minutes |-> 58],
           [day |-> 31, month |-> 12, year |-> 1999, hours |-> 23, minutes |-> 59],
           [day |-> 1,  month |-> 1,  year |-> 2000, hours |-> 0,  minutes |-> 0] >>

\* formatDateToCnab, the branch date instanceof Date
formatDateObject(date) ==
    padStart(IntToStr(date.day), 2, "0") \o padStart(IntToStr(date.month), 2, "0")
        \o IntToStr(date.year)

\* DATE_FORMATTER.format(date): pt-BR, 2-digit day and month, numeric year
DATE_FORMATTER_format(date) ==
    padStart(IntToStr(date.day), 2, "0") \o <<"/">>
        \o padStart(IntToStr(date.month), 2, "0") \o <<"/">> \o IntToStr(date.year)

AllDigits(s) == \A i \in 1..Len(s) : IsDigit(s[i])

\* /(\d{2})[\/-](\d{2})[\/-](\d{4})/ matches s at position i
DateMatchAt(s, i) ==
    /\ i + 9 <= Len(s)
    /\ IsDigit(s[i]) /\ IsDigit(s[i + 1])
    /\ s[i + 2] \in {"/", "-"}
    /\ IsDigit(s[i + 3]) /\ IsDigit(s[i + 4])
    /\ s[i + 5] \in {"/", "-"}
    /\ \A k \in 6..9 : IsDigit(s[i + k])

formatDateToCnab_noFallback(date, now) ==
    LET cleaned == trim(date)
    IN  IF Len(cleaned) = 8 /\ AllDigits(cleaned) THEN cleaned
        ELSE IF \E i \in 1..Len(cleaned) : DateMatchAt(cleaned, i)
        THEN LET i == CHOOSE i \in 1..Len(cleaned) :
                        /\ DateMatchAt(cleaned, i)
                        /\ \A j \in 1..(i - 1) : ~DateMatchAt(cleaned, j)
             IN  SubSeq(cleaned, i, i + 1) \o SubSeq(cleaned, i + 3, i + 4)
                     \o SubSeq(cleaned, i + 6, i + 9)
        ELSE cleaned

\* formatDateToCnab for a string argument; now is what new Date() returns
\* when the fallback is taken.  The match is unanchored: the leftmost one.
formatDateToCnab(date, now) ==
    LET cleaned == trim(date)
    IN  IF Len(cleaned) = 8 /\ AllDigits(cleaned) THEN cleaned
        ELSE IF \E i \in 1..Len(cleaned) : DateMatchAt(cleaned, i)
        THEN LET i == CHOOSE i \in 1..Len(cleaned) :
                        /\ DateMatchAt(cleaned, i)
                        /\ \A j \in 1..(i - 1) : ~DateMatchAt(cleaned, j)
             IN  SubSeq(cleaned, i, i + 1) \o SubSeq(cleaned, i + 3, i + 4)
                     \o SubSeq(cleaned, i + 6, i + 9)
        ELSE formatDateObject(now)

\* toCnabNumber: value is held in cents, so Math.round(value * 100) = value
toCnabNumber(value, length) == padValue(IntToStr(value), length, RightZero)

LineWidth == 240

RECURSIVE Concat(_)
Concat(parts) == IF parts = <<>> THEN <<>> ELSE Head(parts) \o Concat(Tail(parts))

buildLine_noTruncation(parts) ==
    LET line == Concat(parts)
    IN  padEnd(line, LineWidth, SP)

buildLine(parts) ==
    LET line == Concat(parts)
    IN  IF Len(line) >= LineWidth THEN SubSeq(line, 1, LineWidth)
        ELSE padEnd(line, LineWidth, SP)

\* const banco ... const companyName (lines 61-68)
banco(c) ==
    padValue(sanitizeNumber(IF c.banco # <<>> THEN c.banco ELSE <<"0", "3", "3">>), 3, RightZero)

agencia(c) == padValue(sanitizeNumber(c.agencia), 4, RightZero)

dvAgencia(c) == padValue(sanitizeNumber(c.dvAgencia), 1, RightZero)

conta(c) == padValue(sanitizeNumber(c.conta), 9, RightZero)

dvConta(c) == padValue(sanitizeNumber(c.dvConta), 1, RightZero)

convenio(c) == padValue(sanitizeNumber(c.convenio), 20, RightZero)

cnpj(c) == padValue(sanitizeNumber(c.cnpj), 14, RightZero)

companyName_40wide(c) == padValue(toUpperCase(c.empresa), 40, NoOptions)

companyName(c) == padValue(toUpperCase(c.empresa), 30, NoOptions)

\* padValue(" ", n)
Blank(n) == padValue(<<SP>>, n, NoOptions)

Batch0001 == padValue(<<"0", "0", "0", "1">>, 4, RightZero)

\* const fileTime (lines 56-59)
fileTime(date) ==
    padStart(IntToStr(date.hours), 2, "0") \o padStart(IntToStr(date.minutes), 2, "0")

HeaderArquivo(c, date) ==
    buildLine(<< <<"0">>, <<"1">>, banco(c), <<"0", "0", "0", "0", "0">>, Blank(9),
                 convenio(c), Blank(5), padValue(cnpj(c), 14, RightZero), Blank(20),
                 companyName(c),
                 padValue(<<"B", "A", "N", "C", "O", " ", "S", "A", "N", "T", "A", "N",
                            "D", "E", "R">>, 30, NoOptions),
                 formatDateObject(date), fileTime(date),
                 padValue(<<"1">>, 6, RightZero), Blank(71) >>)

HeaderLote(c, date, records) ==
    buildLine(<< <<"1">>, banco(c), Batch0001, <<"1">>, <<"J">>, Blank(2),
                 padValue(<<"0", "4", "0">>, 3, NoOptions), Blank(1), Blank(1),
                 padValue(convenio(c), 20, RightZero), Blank(5),
                 agencia(c), dvAgencia(c), conta(c), Blank(1), dvConta(c),
                 companyName(c), Blank(40), Blank(30), formatDateObject(date), Blank(8),
                 padValue(padStart(IntToStr(Len(records)), 5, "0"), 6, RightZero),
                 Blank(99) >>)

\* The parts of one detail line (lines 116-136); seq is the value of
\* sequential++ and now the instant a fallback new Date() would return.
DetailParts(darf, seq, date, now) ==
    LET vencimento == formatDateToCnab(darf.dataVencimento, now)
        period     == formatDateToCnab(
                          IF darf.periodoApuracao # <<>> THEN darf.periodoApuracao
                          ELSE DATE_FORMATTER_format(date), now)
        referencia == padValue(sanitizeNumber(darf.numeroReferencia), 25, RightZero)
    IN  << <<"3">>, Batch0001, padValue(IntToStr(seq), 5, RightZero), <<"A">>,
           padValue(sanitizeNumber(darf.cnpj), 15, RightZero),
           padValue(toUpperCase(darf.nome), 30, NoOptions),
           padValue(darf.codigoReceita, 6, RightZero),
           referencia, period, vencimento,
           toCnabNumber(darf.valorPrincipal, 15),
           toCnabNumber(darf.valorMulta, 15),
           toCnabNumber(darf.valorJuros, 15),
           toCnabNumber(darf.valorTotal, 15),
           Blank(81) >>

DetailLine_preIncrement(darf, seq, date, now) ==
    buildLine(DetailParts(darf, seq + 1, date, now))

\* The callback of darfs.map, sequential++ being post-increment
DetailLine(darf, seq, date, now) == buildLine(DetailParts(darf, seq, date, now))

\* darfs.reduce((total, darf) => total + darf[key], 0)
RECURSIVE reduceSum(_, _)
reduceSum(records, key) ==
    IF records = <<>> THEN 0
    ELSE reduceSum(SubSeq(records, 1, Len(records) - 1), key) + records[Len(records)][key]

TrailerLote(details, records) ==
    buildLine(<< <<"5">>, Batch0001,
                 padValue(IntToStr(Len(details) + 2), 6, RightZero),
                 toCnabNumber(reduceSum(records, "valorPrincipal"), 18),
                 toCnabNumber(reduceSum(records, "valorMulta"), 18),
                 toCnabNumber(reduceSum(records, "valorJuros"), 18),
                 toCnabNumber(reduceSum(records, "valorTotal"), 18),
                 Blank(145) >>)

TrailerArquivo_countsDetailsOnly(details) ==
    buildLine(<< <<"9">>, padValue(<<"0", "0", "0", "1">>, 6, RightZero),
                 padValue(IntToStr(Len(details) + 2), 6, RightZero), Blank(213) >>)

TrailerArquivo(details) ==
    buildLine(<< <<"9">>, padValue(<<"0", "0", "0", "1">>, 6, RightZero),
                 padValue(IntToStr(Len(details) + 4), 6, RightZero), Blank(213) >>)

\* lines.join("\r\n")
RECURSIVE join(_)
join(ls) ==
    IF ls = <<>> THEN <<>>
    ELSE IF Len(ls) = 1 THEN ls[1]
    ELSE ls[1] \o <<CR, LF>> \o join(Tail(ls))

----------------------------------------------------------------------------
(* Reading a generated file back *)

\* The first index at which CR LF starts in s, 0 if there is none
FirstCRLF(s) ==
    LET cuts == {i \in 1..(Len(s) - 1) : s[i] = CR /\ s[i + 1] = LF}
    IN  IF cuts = {} THEN 0 ELSE CHOOSE i \in cuts : \A j \in cuts : i <= j

\* s.split("\r\n")
RECURSIVE SplitCRLF(_)
SplitCRLF(s) ==
    LET i == FirstCRLF(s)
    IN  IF i = 0 THEN <<s>>
        ELSE <<SubSeq(s, 1, i - 1)>> \o SplitCRLF(SubSeq(s, i + 2, Len(s)))

DigitValue(c) == (CHOOSE i \in 1..10 : DigitChars[i] = c) - 1

RECURSIVE StrToNat(_)
StrToNat(s) ==
    IF s = <<>> THEN 0
    ELSE 10 * StrToNat(SubSeq(s, 1, Len(s) - 1)) + DigitValue(s[Len(s)])

NotANumber == 0 - 1

\* The number a zero-padded unsigned field encodes; a field holding anything
\* but digits encodes none.
CnabDecode(f) == IF f # <<>> /\ AllDigits(f) THEN StrToNat(f) ELSE NotANumber

RECURSIVE SumOver(_, _)
SumOver(f, n) == IF n = 0 THEN 0 ELSE SumOver(f, n - 1) + f[n]

\* Columns (1-based, inclusive) of the detail line and of the trailers
DetailSeqCols == <<6, 10>>
DetailNameCols == <<27, 56>>
DetailPeriodCols == <<88, 95>>
DetailDueCols == <<96, 103>>
DetailAmountCols ==
    [valorPrincipal |-> <<104, 118>>, valorMulta |-> <<119, 133>>,
     valorJuros |-> <<134, 148>>, valorTotal |-> <<149, 163>>]
TrailerAmountCols ==
    [valorPrincipal |-> <<12, 29>>, valorMulta |-> <<30, 47>>,
     valorJuros |-> <<48, 65>>, valorTotal |-> <<66, 83>>]
TrailerLoteCountCols == <<6, 11>>
TrailerArquivoCountCols == <<8, 13>>

Cols(line, c) == SubSeq(line, c[1], c[2])

AmountKeys == {"valorPrincipal", "valorMulta", "valorJuros", "valorTotal"}

----------------------------------------------------------------------------
(* The inputs of the encoder *)

\* A company as the form delivers it once validateCompany passes.
CompanyAcme ==
    [ banco     |-> <<"0", "3", "3">>,
      agencia   |-> <<"1", "2", "3", "4">>,
      dvAgencia |-> <<"5">>,
      conta     |-> <<"1", "3", "0", "0", "0", "1", "2", "3">>,
      dvConta   |-> <<"7">>,
      convenio  |-> <<"0", "0", "3", "3", "1", "2", "3", "4", "0", "0", "0", "0", "1">>,
      empresa   |-> <<"A", "c", "m", "e", " ", "L", "t", "d", "a">>,
      cnpj      |-> <<"1", "2", ".", "3", "4", "5", ".", "6", "7", "8", "/", "0", "0",
                      "0", "1", "-", "9", "0">> ]

\* A company the encoder does not re-validate: empty, non-digit and overlong
\* fields, and a name longer than its 30-character slot.
CompanyOdd ==
    [ banco     |-> <<>>,
      agencia   |-> <<"1", "2", "3", "4", "5", "6">>,
      dvAgencia |-> <<"X">>,
      conta     |-> <<>>,
      dvConta   |-> <<"1", "2">>,
      convenio  |-> <<>>,
      empresa   |-> <<"C", "o", "m", "p", "a", "n", "h", "i", "a", " ", "B", "r", "a",
                      "s", "i", "l", "e", "i", "r", "a", " ", "d", "e", " ", "T", "r",
                      "i", "b", "u", "t", "o", "s", " ", "e", " ", "S", "e", "r", "v",
                      "i", "c", "o", "s">>,
      cnpj      |-> <<>> ]

Companies == {CompanyAcme, CompanyOdd}

\* Records as parseDarfs emits them; amounts in cents.
DarfJoao ==
    [ id |-> 1,
      nome |-> <<"J", "o", "a", "o">>,
      periodoApuracao |-> <<"3", "1", "/", "0", "1", "/", "2", "0", "2", "4">>,
      cnpj |-> <<"1", "2", "3", "4", "5", "6", "7", "8", "0", "0", "0", "1", "9", "0">>,
      codigoReceita |-> <<"1", "7", "0", "8">>,
      numeroReferencia |-> <<>>,
      dataVencimento |-> <<"2", "0", "/", "0", "2", "/", "2", "0", "2", "4">>,
      valorPrincipal |-> 150000, valorMulta |-> 0, valorJuros |-> 0,
      valorTotal |-> 150000 ]

DarfMaria ==
    [ id |-> 2,
      nome |-> <<"M", "a", "r", "i", "a">>,
      periodoApuracao |-> <<>>,
      cnpj |-> <<"1", "2", "3", "4", "5", "6", "7", "8", "9", "0", "9">>,
      codigoReceita |-> <<"5", "9", "5", "2", "-", "0", "7">>,
      numeroReferencia |-> <<"R", "E", "F", " ", "1", "2", "-", "3">>,
      dataVencimento |-> <<"a", "b", "c">>,
      valorPrincipal |-> 25000, valorMulta |-> 1000, valorJuros |-> 500,
      valorTotal |-> 26500 ]

DarfAna ==
    [ id |-> 3,
      nome |-> <<"A", "n", "a">>,
      periodoApuracao |-> <<"9", "9", "/", "2", "0", "2", "4">>,
      cnpj |-> <<>>,
      codigoReceita |-> <<"0", "2", "2", "0">>,
      numeroReferencia |-> <<"1", "2">>,
      dataVencimento |-> <<"2", "0", "0", "2", "2", "0", "2", "4">>,
      valorPrincipal |-> 199, valorMulta |-> 1, valorJuros |-> 0,
      valorTotal |-> 200 ]

DarfJose ==
    [ id |-> 4,
      nome |-> <<"J", "o", "s", "e", " ", "d", "a", " ", "S", "i", "l", "v", "a", " ",
                 "P", "e", "r", "e", "i", "r", "a", " ", "d", "e", " ", "A", "l", "b",
                 "u", "q", "u", "e", "r", "q", "u", "e">>,
      periodoApuracao |-> <<"V", "e", "n", "c", " ", "0", "5", "-", "0", "3", "-", "2",
                            "0", "2", "4">>,
      cnpj |-> <<"1", "2", "3", "4", "5", "6", "7", "8", "0", "0", "0", "1", "9", "0">>,
      codigoReceita |-> <<>>,
      numeroReferencia |-> <<>>,
      dataVencimento |-> <<"1", "/", "2", "/", "2", "0", "2", "4">>,
      valorPrincipal |-> 0 - 500, valorMulta |-> 0, valorJuros |-> 0,
      valorTotal |-> 0 - 500 ]

SampleDarfs == {DarfJoao, DarfMaria, DarfAna, DarfJose}

RECURSIVE SeqsUpTo(_, _)
SeqsUpTo(S, n) ==
    IF n = 0 THEN {<<>>}
    ELSE LET shorter == SeqsUpTo(S, n - 1)
         IN  shorter \cup {Append(q, x) : q \in {r \in shorter : Len(r) = n - 1}, x \in S}

----------------------------------------------------------------------------
(* generateSantanderRemittance as a state machine *)

InitEncoder ==
    /\ company \in Companies
    /\ darfs \in SeqsUpTo(SampleDarfs, MaxRecords)
    /\ clock \in 1..Len(Days)
    /\ creationDate = Days[1]
    /\ sequential = 1
    /\ headerArquivo = <<>>
    /\ headerLote = <<>>
    /\ detailLines = <<>>
    /\ trailerLote = <<>>
    /\ trailerArquivo = <<>>
    /\ remittance = <<>>
    /\ encPc = "start"

\* The clock advances while the function runs.
Tick ==
    /\ encPc \in {"detail", "join"}
    /\ clock < Len(Days)
    /\ clock' = clock + 1
    /\ UNCHANGED <<company, darfs, creationDate, sequential, headerArquivo, headerLote,
                   detailLines, trailerLote, trailerArquivo, remittance, encPc>>
    /\ UNCHANGED <<padVars, numVars, parseVars, cnabVars, pageVars>>

\* lines 54-114
EncHeaders ==
    /\ encPc = "start"
    /\ creationDate' = Days[clock]
    /\ headerArquivo' = HeaderArquivo(company, Days[clock])
    /\ headerLote' = HeaderLote(company, Days[clock], darfs)
    /\ sequential' = 1
    /\ detailLines' = <<>>
    /\ encPc' = "detail"
    /\ UNCHANGED <<company, darfs, clock, trailerLote, trailerArquivo, remittance>>
    /\ UNCHANGED <<padVars, numVars, parseVars, cnabVars, pageVars>>

\* lines 115-139, one call of the map callback
EncDetail ==
    /\ encPc = "detail"
    /\ Len(detailLines) < Len(darfs)
    /\ detailLines' = Append(detailLines,
           DetailLine(darfs[Len(detailLines) + 1], sequential, creationDate, Days[clock]))
    /\ sequential' = sequential + 1
    /\ UNCHANGED <<company, darfs, clock, creationDate, headerArquivo, headerLote,
                   trailerLote, trailerArquivo, remittance, encPc>>
    /\ UNCHANGED <<padVars, numVars, parseVars, cnabVars, pageVars>>

\* lines 141-162
EncTrailers ==
    /\ encPc = "detail"
    /\ Len(detailLines) = Len(darfs)
    /\ trailerLote' = TrailerLote(detailLines, darfs)
    /\ trailerArquivo' = TrailerArquivo(detailLines)
    /\ encPc' = "join"
    /\ UNCHANGED <<company, darfs, clock, creationDate, sequential, headerArquivo,
                   headerLote, detailLines, remittance>>
    /\ UNCHANGED <<padVars, numVars, parseVars, cnabVars, pageVars>>

\* lines 164-165
EncJoin ==
    /\ encPc = "join"
    /\ remittance' = join(<<headerArquivo, headerLote>> \o detailLines
                              \o <<trailerLote, trailerArquivo>>)
    /\ encPc' = "done"
    /\ UNCHANGED <<company, darfs, clock, creationDate, sequential, headerArquivo,
                   headerLote, detailLines, trailerLote, trailerArquivo>>
    /\ UNCHANGED <<padVars, numVars, parseVars, cnabVars, pageVars>>

IdleEncoder ==
    /\ company = CompanyAcme
    /\ darfs = <<>>
    /\ clock = 1
    /\ creationDate = Days[1]
    /\ sequential = 1
    /\ headerArquivo = <<>>
    /\ headerLote = <<>>
    /\ detailLines = <<>>
    /\ trailerLote = <<>>
    /\ trailerArquivo = <<>>
    /\ remittance = <<>>
    /\ encPc = "idle"

----------------------------------------------------------------------------
(* padValue called on its own *)

PadAlphabet == {"0", "1", "9"}

PadOptionSets == {NoOptions, RightZero, [align |-> "right"], [filler |-> "*"]}

InitPadValue ==
    /\ padInput \in SeqsUpTo(PadAlphabet, MaxPadLen)
    /\ padSize \in 1..MaxPadSize
    /\ padOptions \in PadOptionSets
    /\ padOutput = <<>>
    /\ padPc = "start"

IdlePad ==
    /\ padInput = <<>>
    /\ padSize = 1
    /\ padOptions = NoOptions
    /\ padOutput = <<>>
    /\ padPc = "idle"

PadCall ==
    /\ padPc = "start"
    /\ padOutput' = padValue(padInput, padSize, padOptions)
    /\ padPc' = "done"
    /\ UNCHANGED <<padInput, padSize, padOptions>>
    /\ UNCHANGED <<encVars, numVars, parseVars, cnabVars, pageVars>>

----------------------------------------------------------------------------
(* src/src/app/api/darfs/parse/route.ts: normalizeNumber *)

\* [0-9,.-]
IsNumericChar(c) == IsDigit(c) \/ c \in {",", ".", "-"}

\* .replace(/[^0-9,.-]/g, "")
KeepNumeric(value) == SelectSeq(value, IsNumericChar)

\* /\.(?=\d{3}(\D|$))/ matches s at position i
ThousandsAt(s, i) ==
    /\ s[i] = "."
    /\ i + 3 <= Len(s)
    /\ \A k \in 1..3 : IsDigit(s[i + k])
    /\ (i + 3 = Len(s) \/ NotDigit(s[i + 4]))

\* .replace(/\.(?=\d{3}(\D|$))/g, "") over the first n characters of s:
\* every match is found in s itself
RECURSIVE RemoveThousandsUpTo(_, _)
RemoveThousandsUpTo(s, n) ==
    IF n = 0 THEN <<>>
    ELSE RemoveThousandsUpTo(s, n - 1) \o (IF ThousandsAt(s, n) THEN <<>> ELSE <<s[n]>>)

RemoveThousands(s) == RemoveThousandsUpTo(s, Len(s))

\* .replace(/,/g, ".")
CommasToPeriods(s) == [i \in 1..Len(s) |-> IF s[i] = "," THEN "." ELSE s[i]]

\* The longest prefix of s made of digits
RECURSIVE DigitPrefix(_)
DigitPrefix(s) ==
    IF s # <<>> /\ IsDigit(Head(s)) THEN <<Head(s)>> \o DigitPrefix(Tail(s)) ELSE <<>>

\* Number.parseFloat(s) for s over [0-9.-]: the longest prefix that is a
\* decimal literal (sign, digits, point, digits), NaN if it holds no digit.
parseFloat(s) ==
    LET neg      == s # <<>> /\ s[1] = "-"
        unsigned == IF neg THEN Tail(s) ELSE s
        int      == DigitPrefix(unsigned)
        after    == SubSeq(unsigned, Len(int) + 1, Len(unsigned))
        frac     == IF after # <<>> /\ after[1] = "." THEN DigitPrefix(Tail(after)) ELSE <<>>
    IN  [nan |-> int = <<>> /\ frac = <<>>, neg |-> neg, int |-> int, frac |-> frac]

AllZeros(s) == \A i \in 1..Len(s) : s[i] = "0"

\* The fractions of three digits that a binary double holds exactly
ExactThousandths == { <<"1", "2", "5">>, <<"3", "7", "5">>, <<"6", "2", "5">>,
                      <<"8", "7", "5">> }

\* Number(parsed.toFixed(2)), in cents without the sign: the values the
\* call can return.  toFixed rounds the binary double nearest to the parsed
\* decimal; when the decimal lies halfway between two cents that double is
\* exact (and rounds up) only for an eighth, and otherwise lies on either
\* side of the half.
toFixed2(parsed) ==
    LET frac == padEnd(parsed.frac, 3, "0")
        base == 100 * StrToNat(parsed.int) + StrToNat(SubSeq(frac, 1, 2))
        rest == SubSeq(frac, 3, Len(frac))
        tie  == rest[1] = "5" /\ AllZeros(Tail(rest))
    IN  IF DigitValue(rest[1]) < 5 THEN {base}
        ELSE IF ~tie THEN {base + 1}
        ELSE IF SubSeq(frac, 1, 3) \in ExactThousandths THEN {base + 1}
        ELSE {base, base + 1}

\* const parsed = Number.parseFloat(sanitized) and the return statement
parseAndRound(sanitized) ==
    LET parsed == parseFloat(sanitized)
    IN  IF parsed.nan THEN {0}
        ELSE {IF parsed.neg THEN 0 - c ELSE c : c \in toFixed2(parsed)}

normalizeNumber_keepsThousands(value) ==
    parseAndRound(CommasToPeriods(KeepNumeric(value)))

\* normalizeNumber(value): the set of numbers, in cents, the call can return
normalizeNumber(value) ==
    parseAndRound(CommasToPeriods(RemoveThousands(KeepNumeric(value))))

NumAlphabet == {"0", "1", "5", ",", ".", "-", "R"}

NumExamples ==
    { <<"1", ".", "2", "3", "4", ",", "5", "6">>,
      <<"R", "$", " ", "4", "5", ",", "0", "0">>,
      <<"-", "5", ",", "0", "0">>,
      <<"1", ".", "2", "3", "4", ".", "5", "6", "7", ",", "8", "9">>,
      <<"a", "b", "c">>,
      <<"0", ",", "1", "2", "6">>,
      <<"R", "$", " ", "1", ".", "5", "0", "0", ",", "0", "0">>,
      <<"2", ",", "6", "7", "5">>,
      <<"0", ",", "1", "2", "5">> }

InitNormalize ==
    /\ numInput \in SeqsUpTo(NumAlphabet, MaxNumLen) \cup NumExamples
    /\ numResult = 0
    /\ numPc = "start"

IdleNumber ==
    /\ numInput = <<>>
    /\ numResult = 0
    /\ numPc = "idle"

NormalizeCall ==
    /\ numPc = "start"
    /\ numResult' \in normalizeNumber(numInput)
    /\ numPc' = "done"
    /\ UNCHANGED numInput
    /\ UNCHANGED <<encVars, padVars, parseVars, cnabVars, pageVars>>

----------------------------------------------------------------------------
(* src/src/app/api/darfs/parse/route.ts: parseBlocks, sanitizeLine, parseDarfs *)

\* Characters of the source's character classes that are not ASCII, held
\* as atoms: U+00C3, U+2021 and U+0192
ATilde == "U+00C3"
DoubleDagger == "U+2021"
FHook == "U+0192"

IsLetter(c) == \E k \in 1..26 : c = UpperChars[k] \/ c = LowerChars[k]

\* \w, which decides \b
IsWordChar(c) == IsLetter(c) \/ IsDigit(c) \/ c = "_"

\* The first index from p on that holds no white space (\s* is greedy)
RECURSIVE SkipSpaces(_, _)
SkipSpaces(s, p) == IF p <= Len(s) /\ IsSpace(s[p]) THEN SkipSpaces(s, p + 1) ELSE p

\* lit, in upper case, stands at position p of s, whatever the case (flag i)
LiteralAt(s, p, lit) ==
    /\ p + Len(lit) - 1 <= Len(s)
    /\ \A k \in 1..Len(lit) : UpperChar(s[p + k - 1]) = lit[k]

\* \b after a match that ends in a letter: e is the index after the match
BoundaryAt(s, e) == e > Len(s) \/ ~IsWordChar(s[e])

\* \s*(?:DOCUMENTO DE ARRECADA[C..][A..]O|DARF)\b from position p: the
\* index after the match, 0 if there is none
MarkerEnd(s, p) ==
    LET m    == SkipSpaces(s, p)
        long == <<"D", "O", "C", "U", "M", "E", "N", "T", "O", " ", "D", "E", " ",
                  "A", "R", "R", "E", "C", "A", "D", "A">>
    IN  IF /\ LiteralAt(s, m, long)
           /\ m + 23 <= Len(s)
           /\ UpperChar(s[m + 21]) \in {"C", ATilde, DoubleDagger}
           /\ UpperChar(s[m + 22]) \in {"A", ATilde, FHook}
           /\ UpperChar(s[m + 23]) = "O"
           /\ BoundaryAt(s, m + 24)
        THEN m + 24
        ELSE IF LiteralAt(s, m, <<"D", "A", "R", "F">>) /\ BoundaryAt(s, m + 4)
        THEN m + 4
        ELSE 0

\* 0?1\s+NOME from position p: the index after the match, 0 if none
NomeEnd(s, p) ==
    LET one == IF p + 1 <= Len(s) /\ s[p] = "0" /\ s[p + 1] = "1" THEN p + 1
               ELSE IF p <= Len(s) /\ s[p] = "1" THEN p
               ELSE 0
        m   == IF one = 0 THEN 0 ELSE SkipSpaces(s, one + 1)
    IN  IF one # 0 /\ m > one + 1 /\ LiteralAt(s, m, <<"N", "O", "M", "E">>)
        THEN m + 4
        ELSE 0

RestEnd(kind, s, p) == IF kind = "marker" THEN MarkerEnd(s, p) ELSE NomeEnd(s, p)

\* (?:^|\n)... tried at position q, as split tries it: ^ holds at the first
\* position only (no flag m).  The index after the match, 0 if none.
MatchEnd(kind, s, q) ==
    IF q = 1 /\ RestEnd(kind, s, 1) # 0 THEN RestEnd(kind, s, 1)
    ELSE IF s[q] = LF THEN RestEnd(kind, s, q + 1)
    ELSE 0

\* String.prototype.split(regexp): p is where the current piece starts, q
\* the first position where the next match is tried
RECURSIVE SplitFrom(_, _, _, _)
SplitFrom(kind, s, p, q) ==
    LET hits == {k \in q..Len(s) : MatchEnd(kind, s, k) # 0}
    IN  IF hits = {} THEN <<SubSeq(s, p, Len(s))>>
        ELSE LET k == CHOOSE k \in hits : \A j \in hits : k <= j
                 e == MatchEnd(kind, s, k)
             IN  <<SubSeq(s, p, k - 1)>> \o SplitFrom(kind, s, e, e)

split(kind, s) == SplitFrom(kind, s, 1, 1)

\* .map((block) => block.trim())
TrimAll(pieces) == [k \in 1..Len(pieces) |-> trim(pieces[k])]

NonEmpty(x) == x # <<>>

\* block.includes(code)
includes(s, sub) == \E k \in 1..(Len(s) - Len(sub) + 1) : SubSeq(s, k, k + Len(sub) - 1) = sub

fieldOrder == << <<"0", "1">>, <<"0", "2">>, <<"0", "3">>, <<"0", "4">>, <<"0", "5">>,
                 <<"0", "6">>, <<"0", "7">>, <<"0", "8">>, <<"0", "9">>, <<"1", "0">> >>

HasFieldCode(block) == \E k \in 1..Len(fieldOrder) : includes(block, fieldOrder[k])

NotCR(c) == c # CR

parseBlocks(t) ==
    LET cleanedText     == SelectSeq(t, NotCR)
        candidateSplits == SelectSeq(TrimAll(split("marker", cleanedText)), NonEmpty)
        pieces          == split("nome", cleanedText)
        reattached      == [k \in 1..Len(pieces) |->
                               IF k = 1 THEN pieces[k]
                               ELSE <<"0", "1", " ", "N", "O", "M", "E", " ">> \o pieces[k]]
        fallback        == SelectSeq(TrimAll(reattached), HasFieldCode)
    IN  IF Len(candidateSplits) > 1 THEN candidateSplits
        ELSE IF Len(fallback) > 0 THEN fallback
        ELSE <<cleanedText>>

\* .replace(/\s+/g, " ")
RECURSIVE CollapseSpaces(_)
CollapseSpaces(s) ==
    IF s = <<>> THEN <<>>
    ELSE IF IsSpace(s[1]) THEN <<SP>> \o CollapseSpaces(SubSeq(s, SkipSpaces(s, 1), Len(s)))
    ELSE <<s[1]>> \o CollapseSpaces(Tail(s))

RECURSIVE SkipPeriods(_, _)
SkipPeriods(s, p) == IF p <= Len(s) /\ s[p] = "." THEN SkipPeriods(s, p + 1) ELSE p

\* .replace(/\.\.+/g, " ")
RECURSIVE ReplaceDotLeaders(_)
ReplaceDotLeaders(s) ==
    IF s = <<>> THEN <<>>
    ELSE IF Len(s) >= 2 /\ s[1] = "." /\ s[2] = "."
    THEN <<SP>> \o ReplaceDotLeaders(SubSeq(s, SkipPeriods(s, 1), Len(s)))
    ELSE <<s[1]>> \o ReplaceDotLeaders(Tail(s))

\* .replace(/\s:/g, ":")
RECURSIVE DropSpaceBeforeColon(_)
DropSpaceBeforeColon(s) ==
    IF s = <<>> THEN <<>>
    ELSE IF Len(s) >= 2 /\ IsSpace(s[1]) /\ s[2] = ":"
    THEN <<":">> \o DropSpaceBeforeColon(SubSeq(s, 3, Len(s)))
    ELSE <<s[1]>> \o DropSpaceBeforeColon(Tail(s))

sanitizeLine(line) == trim(DropSpaceBeforeColon(ReplaceDotLeaders(CollapseSpaces(line))))

\* block.split(/\n+/): the pieces between line feeds; the empty pieces that
\* a run of line feeds leaves here are the ones filter(Boolean) drops
RECURSIVE SplitLines(_)
SplitLines(s) ==
    IF \E k \in 1..Len(s) : s[k] = LF
    THEN LET k == CHOOSE k \in 1..Len(s) : s[k] = LF /\ \A j \in 1..(k - 1) : s[j] # LF
         IN  <<SubSeq(s, 1, k - 1)>> \o SplitLines(SubSeq(s, k + 1, Len(s)))
    ELSE <<s>>

\* block.split(/\n+/).map(sanitizeLine).filter(Boolean)
BlockLines(block) ==
    LET raw == SplitLines(block)
    IN  SelectSeq([k \in 1..Len(raw) |-> sanitizeLine(raw[k])], NonEmpty)

\* [A-Z U+00C3 U+2021 U+0192 \s] under the flags i and u
IsLabelChar(c) == IsLetter(c) \/ IsSpace(c) \/ c \in {ATilde, DoubleDagger, FHook}

RECURSIVE SkipDigits(_, _)
SkipDigits(s, p) == IF p <= Len(s) /\ IsDigit(s[p]) THEN SkipDigits(s, p + 1) ELSE p

RECURSIVE SkipDashes(_, _)
SkipDashes(s, p) == IF p <= Len(s) /\ s[p] \in {"-", ":"} THEN SkipDashes(s, p + 1) ELSE p

RECURSIVE SkipLabel(_, _)
SkipLabel(s, p) == IF p <= Len(s) /\ IsLabelChar(s[p]) THEN SkipLabel(s, p + 1) ELSE p

NoMatch == [matched |-> FALSE, code |-> <<>>, value |-> <<>>]

\* line.match(/^0?(\d{1,2})\s*[-:]*\s*([A-Z..\s]+)(?:[:\-]\s*|\s{2,}|\s)(.*)$/iu):
\* the code and the trimmed value of the first match the backtracking search
\* finds.  0?(\d{1,2}) takes the whole run of leading digits, or the match
\* fails (a digit can start neither the separators nor the label): a run of
\* 1 or 2 digits is the code, a run of 3 must start with 0.  The label is
\* greedy and the last group takes any rest, so the label ends at the last
\* place where a separator follows it: the colon or dash that ends the run
\* of label characters or, failing that, the last space inside the run.  The
\* label holds at least one character; it may start inside the white space
\* after the code when no dash or colon follows the code.  When dashes or
\* colons follow the code and no label can be found after them, the search
\* backs up: the white space before them is the label and the first of them
\* the separator.
lineMatch(line) ==
    LET n      == SkipDigits(line, 1) - 1
        codeOk == n \in {1, 2} \/ (n = 3 /\ line[1] = "0")
        digits == IF n = 3 THEN SubSeq(line, 2, 3) ELSE SubSeq(line, 1, n)
        p      == n + 1
        b      == SkipSpaces(line, p)
        c      == SkipDashes(line, b)
        qmin   == IF c > b THEN c ELSE p
        runEnd == SkipLabel(line, qmin)
        spaces == {e \in (qmin + 1)..(runEnd - 1) : IsSpace(line[e])}
        sepAt  == IF runEnd > qmin /\ runEnd <= Len(line) /\ line[runEnd] \in {":", "-"}
                  THEN runEnd
                  ELSE IF spaces # {} THEN CHOOSE e \in spaces : \A f \in spaces : f <= e
                  ELSE IF c > b /\ b > p THEN b
                  ELSE 0
    IN  IF codeOk /\ sepAt # 0
        THEN [matched |-> TRUE,
              code    |-> padStart(digits, 2, "0"),
              value   |-> trim(SubSeq(line, sepAt + 1, Len(line)))]
        ELSE NoMatch

\* extractValue(lines, index), index counted from 1
extractValue(ls, index) ==
    LET cur == IF index <= Len(ls) THEN trim(ls[index]) ELSE <<>>
    IN  IF cur # <<>> THEN cur
        ELSE IF index + 1 <= Len(ls) THEN trim(ls[index + 1])
        ELSE <<>>

\* The value the scan assigns for line i of ls (lines 114-118)
valueOf(ls, i) ==
    LET m == lineMatch(ls[i])
    IN  IF m.value # <<>> THEN m.value ELSE extractValue(ls, i + 1)

textFields ==
    [c \in { <<"0", "1">>, <<"0", "2">>, <<"0", "3">>, <<"0", "4">>, <<"0", "5">>,
             <<"0", "6">> } |->
        CASE c = <<"0", "1">> -> "nome"
          [] c = <<"0", "2">> -> "periodoApuracao"
          [] c = <<"0", "3">> -> "cnpj"
          [] c = <<"0", "4">> -> "codigoReceita"
          [] c = <<"0", "5">> -> "numeroReferencia"
          [] c = <<"0", "6">> -> "dataVencimento"]

numericFields ==
    [c \in { <<"0", "7">>, <<"0", "8">>, <<"0", "9">>, <<"1", "0">> } |->
        CASE c = <<"0", "7">> -> "valorPrincipal"
          [] c = <<"0", "8">> -> "valorMulta"
          [] c = <<"0", "9">> -> "valorJuros"
          [] c = <<"1", "0">> -> "valorTotal"]

TextKeys == {textFields[c] : c \in DOMAIN textFields}

NumericKeys == {numericFields[c] : c \in DOMAIN numericFields}

\* let current: Partial<DarfRecord> = {}
EmptyRecord == [k \in {} |-> <<>>]

\* current[key] = v
SetField(cur, key, v) == [k \in DOMAIN cur \cup {key} |-> IF k = key THEN v ELSE cur[k]]

\* The object pushed to darfs (lines 130-142 and 149-161)
Completed(cur, id) ==
    [k \in {"id"} \cup TextKeys \cup NumericKeys |->
        IF k = "id" THEN id
        ELSE IF k \in DOMAIN cur THEN cur[k]
        ELSE IF k \in TextKeys THEN <<>>
        ELSE 0]

\* Lines 120-126: the field the code names takes the value; a code that
\* names no field leaves the accumulator as it is
accumulate_keepsFirst(cur, code, value, amount) ==
    IF code \in DOMAIN textFields /\ textFields[code] \notin DOMAIN cur
    THEN SetField(cur, textFields[code], value)
    ELSE IF code \in DOMAIN numericFields /\ numericFields[code] \notin DOMAIN cur
    THEN SetField(cur, numericFields[code], amount)
    ELSE cur

accumulate(cur, code, value, amount) ==
    IF code \in DOMAIN textFields THEN SetField(cur, textFields[code], value)
    ELSE IF code \in DOMAIN numericFields THEN SetField(cur, numericFields[code], amount)
    ELSE cur

flush_dropsRecord(ds, cur, id) == ds

\* Lines 129-143: the push at a line of code 10
flush(ds, cur, id) ==
    IF DOMAIN cur # {} THEN Append(ds, Completed(cur, id)) ELSE ds

flushAtEnd_unguarded(ds, cur, id) == Append(ds, Completed(cur, id))

flushAtEnd_never(ds, cur, id) == ds

\* Lines 148-162: the push at the end of a block
flushAtEnd(ds, cur, id) ==
    IF DOMAIN cur # {} /\ "valorTotal" \notin DOMAIN cur
    THEN Append(ds, Completed(cur, id))
    ELSE ds

\* randomUUID(): an identifier no earlier call returned.  Identifiers are
\* only ever compared with each other, so the n-th one returned is held as n.
randomUUID(n) == n + 1

----------------------------------------------------------------------------
(* Texts handed to parseDarfs: up to MaxSlips of these, one after another *)

\* A slip under the DARF heading, with dot leaders, closed by code 10:
\*   DARF\n01 NOME: Ana\n07 PRINCIPAL ..  1.500,00\n10 TOTAL: 1.500,00
SlipAna ==
    <<"D", "A", "R", "F", LF, "0", "1", SP, "N", "O", "M", "E", ":", SP,
      "A", "n", "a", LF, "0", "7", SP, "P", "R", "I", "N", "C", "I", "P",
      "A", "L", SP, ".", ".", SP, SP, "1", ".", "5", "0", "0", ",", "0",
      "0", LF, "1", "0", SP, "T", "O", "T", "A", "L", ":", SP, "1", ".",
      "5", "0", "0", ",", "0", "0">>

\* A slip under the long heading, CRLF line ends, the total on the line after its label:
\*   Documento de Arrecadacao\r\n1 NOME Bo Li\r\n10 TOTAL:\r\n7,00
SlipBo ==
    <<"D", "o", "c", "u", "m", "e", "n", "t", "o", SP, "d", "e", SP, "A",
      "r", "r", "e", "c", "a", "d", "a", "c", "a", "o", CR, LF, "1", SP,
      "N", "O", "M", "E", SP, "B", "o", SP, "L", "i", CR, LF, "1", "0", SP,
      "T", "O", "T", "A", "L", ":", CR, LF, "7", ",", "0", "0">>

\* A slip with no heading and no total, one code given twice:
\*   01 NOME: Cy\n02 PERIODO: 01/2024\n02 PERIODO: 02/2024\n08 MULTA: -1,00
SlipCy ==
    <<"0", "1", SP, "N", "O", "M", "E", ":", SP, "C", "y", LF, "0", "2",
      SP, "P", "E", "R", "I", "O", "D", "O", ":", SP, "0", "1", "/", "2",
      "0", "2", "4", LF, "0", "2", SP, "P", "E", "R", "I", "O", "D", "O",
      ":", SP, "0", "2", "/", "2", "0", "2", "4", LF, "0", "8", SP, "M",
      "U", "L", "T", "A", ":", SP, "-", "1", ",", "0", "0">>

\* Lines that carry none of the codes 01..10:
\*   DARF\nx y\n99 OUTRO: z
SlipOther ==
    <<"D", "A", "R", "F", LF, "x", SP, "y", LF, "9", "9", SP, "O", "U",
      "T", "R", "O", ":", SP, "z">>

\* A field after the total of its slip:
\*   10 TOTAL: 5,00\n06 VENCIMENTO: 20/02/2024
SlipLate ==
    <<"1", "0", SP, "T", "O", "T", "A", "L", ":", SP, "5", ",", "0", "0",
      LF, "0", "6", SP, "V", "E", "N", "C", "I", "M", "E", "N", "T", "O",
      ":", SP, "2", "0", "/", "0", "2", "/", "2", "0", "2", "4">>

\* A dot leader alone and a line that holds a code inside a word:
\*   ..\nref 2010
SlipNoise ==
    <<".", ".", LF, "r", "e", "f", SP, "2", "0", "1", "0">>

\* A heading and a field on one line:
\*   DARF 07 VALOR: 2,00
SlipInline ==
    <<"D", "A", "R", "F", SP, "0", "7", SP, "V", "A", "L", "O", "R", ":",
      SP, "2", ",", "0", "0">>

\* Dashes as separators:
\*   03 CNPJ - 12.345\n10 - TOTAL - 3,00
SlipDash ==
    <<"0", "3", SP, "C", "N", "P", "J", SP, "-", SP, "1", "2", ".", "3",
      "4", "5", LF, "1", "0", SP, "-", SP, "T", "O", "T", "A", "L", SP,
      "-", SP, "3", ",", "0", "0">>

Slips == <<SlipAna, SlipBo, SlipCy, SlipOther, SlipLate, SlipNoise, SlipInline, SlipDash>>

\* The slips choice names, each on a line of its own
RECURSIVE JoinSlips(_)
JoinSlips(choice) ==
    IF choice = <<>> THEN <<>>
    ELSE IF Len(choice) = 1 THEN Slips[choice[1]]
    ELSE Slips[choice[1]] \o <<LF>> \o JoinSlips(Tail(choice))

Texts == {JoinSlips(choice) : choice \in UNION {[1..n -> 1..Len(Slips)] : n \in 0..MaxSlips}}

----------------------------------------------------------------------------
(* parseDarfs as a state machine *)

InitParse ==
    /\ text \in Texts
    /\ blocks = <<>>
    /\ blockIndex = 0
    /\ lines = <<>>
    /\ lineIndex = 0
    /\ current = EmptyRecord
    /\ parsedDarfs = <<>>
    /\ result = <<>>
    /\ previous = <<>>
    /\ runs = 1
    /\ issued = 0
    /\ parsePc = "start"

IdleParse ==
    /\ text = <<>>
    /\ blocks = <<>>
    /\ blockIndex = 0
    /\ lines = <<>>
    /\ lineIndex = 0
    /\ current = EmptyRecord
    /\ parsedDarfs = <<>>
    /\ result = <<>>
    /\ previous = <<>>
    /\ runs = 0
    /\ issued = 0
    /\ parsePc = "idle"

\* Lines 90-91
ParseStart ==
    /\ parsePc = "start"
    /\ blocks' = parseBlocks(text)
    /\ blockIndex' = 1
    /\ parsedDarfs' = <<>>
    /\ parsePc' = "block"
    /\ UNCHANGED <<text, lines, lineIndex, current, result, previous, runs, issued>>
    /\ UNCHANGED <<encVars, padVars, numVars, cnabVars, pageVars>>

\* Lines 93-101: a block with no line left is passed over
BlockSkip ==
    /\ parsePc = "block"
    /\ blockIndex <= Len(blocks)
    /\ BlockLines(blocks[blockIndex]) = <<>>
    /\ blockIndex' = blockIndex + 1
    /\ UNCHANGED <<text, blocks, lines, lineIndex, current, parsedDarfs, result,
                   previous, runs, issued, parsePc>>
    /\ UNCHANGED <<encVars, padVars, numVars, cnabVars, pageVars>>

\* Lines 93-105: the lines of the block, an empty accumulator, i at the first line
BlockBegin ==
    /\ parsePc = "block"
    /\ blockIndex <= Len(blocks)
    /\ BlockLines(blocks[blockIndex]) # <<>>
    /\ lines' = BlockLines(blocks[blockIndex])
    /\ current' = EmptyRecord
    /\ lineIndex' = 1
    /\ parsePc' = "scan"
    /\ UNCHANGED <<text, blocks, blockIndex, parsedDarfs, result, previous, runs,
                   issued>>
    /\ UNCHANGED <<encVars, padVars, numVars, cnabVars, pageVars>>

\* Lines 106-110: the line does not match
ScanNoMatch ==
    /\ parsePc = "scan"
    /\ lineIndex <= Len(lines)
    /\ ~lineMatch(lines[lineIndex]).matched
    /\ lineIndex' = lineIndex + 1
    /\ UNCHANGED <<text, blocks, blockIndex, lines, current, parsedDarfs, result,
                   previous, runs, issued, parsePc>>
    /\ UNCHANGED <<encVars, padVars, numVars, cnabVars, pageVars>>

\* Lines 106-126: the line matches and its code is not 10
ScanAssign ==
    /\ parsePc = "scan"
    /\ lineIndex <= Len(lines)
    /\ lineMatch(lines[lineIndex]).matched
    /\ lineMatch(lines[lineIndex]).code # <<"1", "0">>
    /\ LET code  == lineMatch(lines[lineIndex]).code
           value == valueOf(lines, lineIndex)
       IN  IF code \in DOMAIN numericFields
           THEN \E amount \in normalizeNumber(value) :
                    current' = accumulate(current, code, value, amount)
           ELSE current' = accumulate(current, code, value, 0)
    /\ lineIndex' = lineIndex + 1
    /\ UNCHANGED <<text, blocks, blockIndex, lines, parsedDarfs, result, previous, runs,
                   issued, parsePc>>
    /\ UNCHANGED <<encVars, padVars, numVars, cnabVars, pageVars>>

\* Lines 106-145: the line matches and its code is 10
ScanTotal ==
    /\ parsePc = "scan"
    /\ lineIndex <= Len(lines)
    /\ lineMatch(lines[lineIndex]).matched
    /\ lineMatch(lines[lineIndex]).code = <<"1", "0">>
    /\ LET value == valueOf(lines, lineIndex)
       IN  \E amount \in normalizeNumber(value) :
               parsedDarfs' = flush(parsedDarfs,
                                    accumulate(current, <<"1", "0">>, value, amount),
                                    randomUUID(issued))
    /\ issued' = IF parsedDarfs' # parsedDarfs THEN issued + 1 ELSE issued
    /\ current' = EmptyRecord
    /\ lineIndex' = lineIndex + 1
    /\ UNCHANGED <<text, blocks, blockIndex, lines, result, previous, runs, parsePc>>
    /\ UNCHANGED <<encVars, padVars, numVars, cnabVars, pageVars>>

\* Lines 148-163: past the last line of the block
BlockEnd ==
    /\ parsePc = "scan"
    /\ lineIndex > Len(lines)
    /\ parsedDarfs' = flushAtEnd(parsedDarfs, current, randomUUID(issued))
    /\ issued' = IF parsedDarfs' # parsedDarfs THEN issued + 1 ELSE issued
    /\ blockIndex' = blockIndex + 1
    /\ lines' = <<>>
    /\ lineIndex' = 0
    /\ current' = EmptyRecord
    /\ parsePc' = "block"
    /\ UNCHANGED <<text, blocks, result, previous, runs>>
    /\ UNCHANGED <<encVars, padVars, numVars, cnabVars, pageVars>>

\* Line 165
ParseReturn ==
    /\ parsePc = "block"
    /\ blockIndex > Len(blocks)
    /\ result' = parsedDarfs
    /\ blocks' = <<>>
    /\ blockIndex' = 0
    /\ parsedDarfs' = <<>>
    /\ parsePc' = "done"
    /\ UNCHANGED <<text, lines, lineIndex, current, previous, runs, issued>>
    /\ UNCHANGED <<encVars, padVars, numVars, cnabVars, pageVars>>

\* parseDarfs is called again on the same text
Rerun ==
    /\ parsePc = "done"
    /\ runs < MaxRuns
    /\ previous' = result
    /\ result' = <<>>
    /\ runs' = runs + 1
    /\ parsePc' = "start"
    /\ UNCHANGED <<text, blocks, blockIndex, lines, lineIndex, current, parsedDarfs,
                   issued>>
    /\ UNCHANGED <<encVars, padVars, numVars, cnabVars, pageVars>>

----------------------------------------------------------------------------
(* One call of toCnabNumber *)

\* The widths the encoder asks for: detail amounts and trailer totals
CnabLengths == {15, 18}

\* The amounts of the sample records and every amount up to MaxCents cents,
\* of either sign: normalizeNumber returns negative amounts too
CnabAmounts ==
    ((0 - MaxCents)..MaxCents)
        \cup {d[k] : d \in SampleDarfs, k \in AmountKeys}

InitCnabNumber ==
    /\ cnabValue \in CnabAmounts
    /\ cnabLength \in CnabLengths
    /\ cnabOutput = <<>>
    /\ cnabPc = "start"

IdleCnab ==
    /\ cnabValue = 0
    /\ cnabLength = 0
    /\ cnabOutput = <<>>
    /\ cnabPc = "idle"

CnabCall ==
    /\ cnabPc = "start"
    /\ cnabOutput' = toCnabNumber(cnabValue, cnabLength)
    /\ cnabPc' = "done"
    /\ UNCHANGED <<cnabValue, cnabLength>>
    /\ UNCHANGED <<encVars, padVars, numVars, parseVars, pageVars>>

----------------------------------------------------------------------------
(* The page Home (src/unnamed/part_000) *)

\* generateSantanderRemittance(company, darfs) called at the instant date
generateSantanderRemittance(c, records, date) ==
    LET details == [k \in 1..Len(records) |-> DetailLine(records[k], k, date, date)]
    IN  join(<<HeaderArquivo(c, date), HeaderLote(c, date, records)>> \o details
                 \o <<TrailerLote(details, records), TrailerArquivo(details)>>)

initialCompany ==
    [ banco     |-> <<"0", "3", "3">>,
      agencia   |-> <<>>,
      dvAgencia |-> <<>>,
      conta     |-> <<>>,
      dvConta   |-> <<>>,
      convenio  |-> <<>>,
      empresa   |-> <<>>,
      cnpj      |-> <<>> ]

\* The fields in the order validateCompany reads them, and the names it gives them
CompanyFields ==
    <<"banco", "agencia", "dvAgencia", "conta", "dvConta", "convenio", "empresa", "cnpj">>

FieldLabels ==
    <<"Banco", "Agencia", "DV da agencia", "Conta", "Digito da conta", "Convenio",
      "Empresa", "CNPJ">>

\* What the control of a field can deliver: the select of banco has the one
\* option 033 (bankOptions), a text input any string, here empty or not
FieldValues(field) ==
    IF field = "banco" THEN {<<"0", "3", "3">>} ELSE {<<>>, <<"1">>}

\* A change event: the field and the value its control delivers
ChangeEvents ==
    {e \in [field : {CompanyFields[k] : k \in 1..Len(CompanyFields)},
            value : {<<>>, <<"1">>, <<"0", "3", "3">>}] : e.value \in FieldValues(e.field)}

\* The change events of the model: every field can be filled, the last one
\* can be emptied again
FormEvents == {e \in ChangeEvents : e.value # <<>> \/ e.field = "cnpj"}

sanitizeDocument(value) == SelectSeq(value, IsDigit)

RECURSIVE MissingFrom(_, _)
MissingFrom(c, k) ==
    IF k > Len(CompanyFields) THEN <<>>
    ELSE (IF c[CompanyFields[k]] = <<>> THEN <<FieldLabels[k]>> ELSE <<>>)
             \o MissingFrom(c, k + 1)

validateCompany_skipsCnpj(c) == MissingFrom([c EXCEPT !.cnpj = <<"0">>], 1)

validateCompany(c) == MissingFrom(c, 1)

\* The messages of the page; Null is null
Null == [kind |-> "null", fields |-> <<>>]

\* `Preencha os campos obrigatorios: ${missingFields.join(", ")}.`
MissingMessage(missingFields) == [kind |-> "missing", fields |-> missingFields]

NoRecordsMessage == [kind |-> "norecords", fields |-> <<>>]

SuccessMessage == [kind |-> "success", fields |-> <<>>]

\* Error texts: the two the route answers with and the one of a failed fetch
NoSlipFound == [kind |-> "Nenhuma guia de DARF foi identificada no PDF enviado.",
                fields |-> <<>>]

CouldNotProcess == [kind |-> "Nao foi possivel processar o arquivo enviado.",
                    fields |-> <<>>]

FetchFailed == [kind |-> "Failed to fetch", fields |-> <<>>]

\* Lists the route returns: records as parseDarfs completes them
UploadedDash ==
    Completed(SetField(SetField(EmptyRecord, "cnpj", <<"1", "2", ".", "3", "4", "5">>),
                       "valorTotal", 300), 1)

UploadedAna ==
    Completed(SetField(SetField(SetField(EmptyRecord, "nome", <<"A", "n", "a">>),
                                "cnpj", <<"1", "2", "/", "0", "0", "0", "1", "-", "9">>),
                       "valorTotal", 150000), 2)

UploadedCy ==
    Completed(SetField(SetField(EmptyRecord, "nome", <<"C", "y">>), "valorMulta", 0 - 100), 3)

ReturnedLists == {<<UploadedDash>>, <<UploadedAna, UploadedCy>>}

\* What the await of fetch and of response.json() can deliver
Answered(isOk, records, message) ==
    [phase |-> "answered", ok |-> isOk, darfs |-> records, message |-> message]

Answers ==
    {Answered(TRUE, records, Null) : records \in ReturnedLists}
        \cup {Answered(FALSE, <<>>, message) :
                  message \in {NoSlipFound, CouldNotProcess, FetchFailed}}

NoUpload == [phase |-> "none", ok |-> FALSE, darfs |-> <<>>, message |-> Null]

sanitizedDarfs_keepsPunctuation(records) == records

\* payload.darfs.map((darf) => ({ ...darf, cnpj: sanitizeDocument(darf.cnpj) }))
sanitizedDarfs(records) ==
    [k \in 1..Len(records) |-> [records[k] EXCEPT !.cnpj = sanitizeDocument(@)]]

InitHome ==
    /\ pageCompany = initialCompany
    /\ pageDarfs = <<>>
    /\ isUploading = FALSE
    /\ errorMessage = Null
    /\ validationMessage = Null
    /\ upload = NoUpload
    /\ download = <<>>

IdlePage ==
    /\ pageCompany = initialCompany
    /\ pageDarfs = <<>>
    /\ isUploading = FALSE
    /\ errorMessage = Null
    /\ validationMessage = Null
    /\ upload = [phase |-> "idle", ok |-> FALSE, darfs |-> <<>>, message |-> Null]
    /\ download = <<>>

PageLive == upload.phase # "idle"

\* Lines 104-106, on the change event of a field's control
handleCompanyChange ==
    /\ PageLive
    /\ \E e \in FormEvents : pageCompany' = [pageCompany EXCEPT ![e.field] = e.value]
    /\ UNCHANGED <<pageDarfs, isUploading, errorMessage, validationMessage, upload,
                   download>>
    /\ UNCHANGED <<encVars, padVars, numVars, parseVars, cnabVars>>

\* Lines 108-125, up to the await of fetch; the file input is disabled while
\* isUploading (line 312)
handleFileUpload ==
    /\ PageLive
    /\ ~isUploading
    /\ isUploading' = TRUE
    /\ errorMessage' = Null
    /\ validationMessage' = Null
    /\ upload' = [phase |-> "sent", ok |-> FALSE, darfs |-> <<>>, message |-> Null]
    /\ UNCHANGED <<pageCompany, pageDarfs, download>>
    /\ UNCHANGED <<encVars, padVars, numVars, parseVars, cnabVars>>

\* route.ts lines 168-201: the list of the slips, 422 when there is none,
\* 500 when reading the file fails; or the request fails on its way
POST ==
    /\ upload.phase = "sent"
    /\ upload' \in Answers
    /\ UNCHANGED <<pageCompany, pageDarfs, isUploading, errorMessage, validationMessage,
                   download>>
    /\ UNCHANGED <<encVars, padVars, numVars, parseVars, cnabVars>>

\* Lines 127-146, from the await on
handleFileUploadSettle ==
    /\ upload.phase = "answered"
    /\ IF upload.ok
       THEN /\ pageDarfs' = sanitizedDarfs(upload.darfs)
            /\ UNCHANGED errorMessage
       ELSE /\ errorMessage' = upload.message
            /\ pageDarfs' = <<>>
    /\ isUploading' = FALSE
    /\ upload' = NoUpload
    /\ UNCHANGED <<pageCompany, validationMessage, download>>
    /\ UNCHANGED <<encVars, padVars, numVars, parseVars, cnabVars>>

\* Lines 149-174; the button is rendered while darfs holds a record (line 375)
handleGenerateRemittance ==
    /\ PageLive
    /\ pageDarfs # <<>>
    /\ LET missingFields == validateCompany(pageCompany)
       IN  IF Len(missingFields) > 0
           THEN /\ validationMessage' = MissingMessage(missingFields)
                /\ UNCHANGED download
           ELSE IF Len(pageDarfs) = 0
           THEN /\ validationMessage' = NoRecordsMessage
                /\ UNCHANGED download
           ELSE /\ download' = generateSantanderRemittance(pageCompany, pageDarfs, Days[clock])
                /\ validationMessage' = SuccessMessage
    /\ UNCHANGED <<pageCompany, pageDarfs, isUploading, errorMessage, upload>>
    /\ UNCHANGED <<encVars, padVars, numVars, parseVars, cnabVars>>

\* Lines 176-180; the button is rendered while darfs holds a record (line 315)
handleReset ==
    /\ PageLive
    /\ pageDarfs # <<>>
    /\ pageDarfs' = <<>>
    /\ errorMessage' = Null
    /\ validationMessage' = Null
    /\ UNCHANGED <<pageCompany, isUploading, upload, download>>
    /\ UNCHANGED <<encVars, padVars, numVars, parseVars, cnabVars>>

----------------------------------------------------------------------------
(* Specifications *)

\* One call of generateSantanderRemittance
Init == InitEncoder /\ IdlePad /\ IdleNumber /\ IdleParse /\ IdleCnab /\ IdlePage

Next == Tick \/ EncHeaders \/ EncDetail \/ EncTrailers \/ EncJoin

Spec == Init /\ [][Next]_vars

\* One call of padValue
InitPad == IdleEncoder /\ InitPadValue /\ IdleNumber /\ IdleParse /\ IdleCnab /\ IdlePage

NextPad == PadCall

SpecPad == InitPad /\ [][NextPad]_vars

\* One call of normalizeNumber
InitNumber == IdleEncoder /\ IdlePad /\ InitNormalize /\ IdleParse /\ IdleCnab /\ IdlePage

NextNumber == NormalizeCall

SpecNumber == InitNumber /\ [][NextNumber]_vars

\* Calls of parseDarfs on one text
InitParseDarfs == IdleEncoder /\ IdlePad /\ IdleNumber /\ InitParse /\ IdleCnab /\ IdlePage

NextParse ==
    \/ ParseStart
    \/ BlockSkip
    \/ BlockBegin
    \/ ScanNoMatch
    \/ ScanAssign
    \/ ScanTotal
    \/ BlockEnd
    \/ ParseReturn
    \/ Rerun

SpecParse == InitParseDarfs /\ [][NextParse]_vars

\* One call of toCnabNumber
InitCnab == IdleEncoder /\ IdlePad /\ IdleNumber /\ IdleParse /\ InitCnabNumber /\ IdlePage

NextCnab == CnabCall

SpecCnab == InitCnab /\ [][NextCnab]_vars

\* The page: any sequence of its events
InitPage == IdleEncoder /\ IdlePad /\ IdleNumber /\ IdleParse /\ IdleCnab /\ InitHome

NextPage ==
    \/ handleCompanyChange
    \/ handleFileUpload
    \/ POST
    \/ handleFileUploadSettle
    \/ handleGenerateRemittance
    \/ handleReset

SpecPage == InitPage /\ [][NextPage]_vars

\* The page when every request is answered or fails, and the continuation
\* of handleFileUpload then runs
SpecUpload ==
    /\ InitPage
    /\ [][NextPage]_vars
    /\ WF_vars(POST)
    /\ WF_vars(handleFileUploadSettle)

----------------------------------------------------------------------------
(* Claims about the encoder, checked under Spec *)

\* C1: the returned string, split on CRLF, has exactly N + 4 lines, each of
\* exactly 240 characters: file header, batch header, N detail lines, batch
\* trailer, file trailer, in that order, with no trailing CRLF.
C1_LinesAre240AndCountNPlus4 ==
    encPc = "done" =>
        LET ls == SplitCRLF(remittance)
            n  == Len(darfs)
        IN  /\ Len(ls) = n + 4
            /\ \A i \in 1..Len(ls) : Len(ls[i]) = 240
            /\ ls[1][1] = "0"
            /\ ls[2][1] = "1"
            /\ \A i \in 1..n : ls[i + 2][1] = "3"
            /\ ls[n + 3][1] = "5"
            /\ ls[n + 4][1] = "9"

\* A finished file of at least two records for the company whose name
\* overflows its slot.
C1_Witness ==
    /\ encPc = "done"
    /\ Len(darfs) >= 2
    /\ company = CompanyOdd
    /\ Len(remittance) = (Len(darfs) + 4) * 242 - 2

\* C2 as stated: for a non-empty input each of the four 18-character amount
\* fields of the batch trailer encodes the sum of the cents encoded in the
\* corresponding 15-character field of every detail line.
C2_TrailerTotalsEqualDetailSums ==
    (encPc = "done" /\ darfs # <<>>) =>
        LET ls == SplitCRLF(remittance)
            n  == Len(darfs)
        IN  \A k \in AmountKeys :
                LET det == [i \in 1..n |-> CnabDecode(Cols(ls[i + 2], DetailAmountCols[k]))]
                    tot == CnabDecode(Cols(ls[n + 3], TrailerAmountCols[k]))
                IN  /\ \A i \in 1..n : det[i] # NotANumber
                    /\ tot # NotANumber
                    /\ tot = SumOver(det, n)

\* C3: the batch trailer's 6-digit count holds N + 2, the number of lines
\* from batch header to batch trailer; the file trailer's holds N + 4, the
\* number of lines of the file.
C3_TrailerLineCounts ==
    encPc = "done" =>
        LET ls == SplitCRLF(remittance)
            n  == Len(darfs)
            batchLines == {i \in 1..Len(ls) : ls[i][1] \in {"1", "3", "5"}}
        IN  /\ CnabDecode(Cols(ls[n + 3], TrailerLoteCountCols)) = n + 2
            /\ CnabDecode(Cols(ls[n + 3], TrailerLoteCountCols)) = Cardinality(batchLines)
            /\ CnabDecode(Cols(ls[n + 4], TrailerArquivoCountCols)) = n + 4
            /\ CnabDecode(Cols(ls[n + 4], TrailerArquivoCountCols)) = Len(ls)

C3_Witness ==
    /\ encPc = "done"
    /\ Len(darfs) = 3
    /\ Cols(trailerLote, TrailerLoteCountCols) = <<"0", "0", "0", "0", "0", "5">>
    /\ Cols(trailerArquivo, TrailerArquivoCountCols) = <<"0", "0", "0", "0", "0", "7">>

\* C4: the i-th record of the input produces the i-th detail line, whose
\* 5-digit zero-padded sequence field encodes i: 1-based, contiguous, in
\* input order.
C4_DetailSequenceNumbers ==
    /\ Len(detailLines) <= Len(darfs)
    /\ \A i \in 1..Len(detailLines) :
           /\ Len(Cols(detailLines[i], DetailSeqCols)) = 5
           /\ CnabDecode(Cols(detailLines[i], DetailSeqCols)) = i
           /\ Cols(detailLines[i], DetailNameCols)
                  = padEnd(sliceFirst(toUpperCase(darfs[i].nome), 30), 30, SP)
    /\ encPc = "done" =>
           /\ Len(detailLines) = Len(darfs)
           /\ LET ls == SplitCRLF(remittance)
              IN  \A i \in 1..Len(darfs) : ls[i + 2] = detailLines[i]

\* Three different records, all encoded.
C4_Witness ==
    /\ encPc = "done"
    /\ Len(darfs) = 3
    /\ darfs[1] # darfs[2] /\ darfs[2] # darfs[3] /\ darfs[1] # darfs[3]
    /\ Cols(detailLines[3], DetailSeqCols) = <<"0", "0", "0", "0", "3">>

\* Where in Days the clock stood when creationDate was read
CreationIndex == CHOOSE k \in 1..Len(Days) : Days[k] = creationDate

\* What C9 allows as the encoding of a string date: the trimmed input if it
\* is 8 digits, the digits of a day/month/year it holds, else the date of an
\* instant of the run.
C9_Allowed(date) ==
    LET t == trim(date)
    IN  IF Len(t) = 8 /\ AllDigits(t) THEN {t}
        ELSE IF \E i \in 1..Len(t) : DateMatchAt(t, i)
        THEN {SelectSeq(SubSeq(t, i, i + 9), IsDigit) : i \in {j \in 1..Len(t) : DateMatchAt(t, j)}}
        ELSE {formatDateObject(Days[k]) : k \in CreationIndex..clock}

\* C9: every string date (empty and unparseable ones included) is encoded
\* as 8 digits: itself if it is 8 digits, DDMMYYYY if it is day/month/year
\* with slashes or dashes, else the current date; no due date or assessment
\* period stops the run short of a detail line.
C9_DateEncoding ==
    \A i \in 1..Len(detailLines) :
        LET due    == Cols(detailLines[i], DetailDueCols)
            period == Cols(detailLines[i], DetailPeriodCols)
        IN  /\ Len(due) = 8 /\ AllDigits(due)
            /\ Len(period) = 8 /\ AllDigits(period)
            /\ due \in C9_Allowed(darfs[i].dataVencimento)
            /\ period \in C9_Allowed(IF darfs[i].periodoApuracao # <<>>
                                     THEN darfs[i].periodoApuracao
                                     ELSE DATE_FORMATTER_format(creationDate))

\* The record whose due date is "abc" and whose period is empty was encoded
\* after midnight, in a file created before it.
C9_Witness ==
    /\ encPc = "done"
    /\ \E i \in 1..Len(darfs) :
           /\ darfs[i] = DarfMaria
           /\ Cols(detailLines[i], DetailDueCols) = <<"0", "1", "0", "1", "2", "0", "0", "0">>
           /\ Cols(detailLines[i], DetailPeriodCols) = <<"3", "1", "1", "2", "1", "9", "9", "9">>

----------------------------------------------------------------------------
(* Claims about padValue, checked under SpecPad *)

\* s.replace(/^0+/, "")
RECURSIVE StripLeadingZeros(_)
StripLeadingZeros(s) ==
    IF s # <<>> /\ Head(s) = "0" THEN StripLeadingZeros(Tail(s)) ELSE s

\* Right-justified with zero fill: align right, the filler "0" or left to
\* its default
PadsRightWithZeros ==
    /\ "align" \in DOMAIN padOptions /\ padOptions["align"] = "right"
    /\ "filler" \in DOMAIN padOptions => padOptions["filler"] = "0"

\* C10 as stated: every digit string of length at most W, right-justified
\* with zero fill to width W and then stripped of its leading zeros, is
\* recovered exactly.
C10_RoundTripEveryDigitString ==
    (padPc = "done" /\ PadsRightWithZeros /\ AllDigits(padInput)
        /\ Len(padInput) <= padSize)
    => StripLeadingZeros(padOutput) = padInput

\* C10 amended: the round trip recovers every digit string of length at
\* most W that does not itself begin with 0.
C10_RoundTripNoLeadingZero ==
    (padPc = "done" /\ PadsRightWithZeros /\ AllDigits(padInput)
        /\ Len(padInput) <= padSize
        /\ (padInput = <<>> \/ padInput[1] # "0"))
    => /\ Len(padOutput) = padSize
       /\ StripLeadingZeros(padOutput) = padInput

\* "10" padded to "010"
C10_Witness ==
    /\ padPc = "done"
    /\ PadsRightWithZeros
    /\ padInput = <<"1", "0">>
    /\ padSize = 3
    /\ padOutput = <<"0", "1", "0">>

----------------------------------------------------------------------------
(* Claims about normalizeNumber, checked under SpecNumber *)

\* C7 as stated: normalizeNumber returns a non-negative number for every
\* string (that it has at most 2 decimals is how the model holds it: cents).
C7_ResultNonNegative == numPc = "done" => numResult >= 0

\* The index of the first comma of s, Len(s) + 1 if it has none
FirstComma(s) ==
    IF \E i \in 1..Len(s) : s[i] = ","
    THEN CHOOSE i \in 1..Len(s) : s[i] = "," /\ \A j \in 1..(i - 1) : s[j] # ","
    ELSE Len(s) + 1

\* s is digits, then groups of a period and exactly three digits
RECURSIVE GroupedInteger(_)
GroupedInteger(s) ==
    IF \E i \in 1..Len(s) : s[i] = "."
    THEN /\ Len(s) >= 5
         /\ s[Len(s) - 3] = "."
         /\ AllDigits(SubSeq(s, Len(s) - 2, Len(s)))
         /\ GroupedInteger(SubSeq(s, 1, Len(s) - 4))
    ELSE s # <<>> /\ AllDigits(s)

\* A well-formed Brazilian amount: grouped integer part, then optionally a
\* comma and decimals
WellFormedAmount(s) ==
    LET c == FirstComma(s)
    IN  /\ GroupedInteger(SubSeq(s, 1, c - 1))
        /\ c <= Len(s) => (c < Len(s) /\ AllDigits(SubSeq(s, c + 1, Len(s))))

RECURSIVE Pow10(_)
Pow10(k) == IF k = 0 THEN 1 ELSE 10 * Pow10(k - 1)

Abs(x) == IF x < 0 THEN 0 - x ELSE x

\* r cents is the well-formed amount s rounded to 2 decimals
IsAmountOf(r, s) ==
    LET c    == FirstComma(s)
        int  == StrToNat(SelectSeq(SubSeq(s, 1, c - 1), IsDigit))
        frac == SubSeq(s, c + 1, Len(s))
        k    == Len(frac)
    IN  IF k <= 2 THEN r = 100 * int + StrToNat(frac) * Pow10(2 - k)
        ELSE 2 * Abs(r * Pow10(k - 2) - (int * Pow10(k) + StrToNat(frac))) <= Pow10(k - 2)

\* C8: normalizeNumber computes the Brazilian-format amount: characters
\* other than digits, comma, period and minus are dropped, periods before
\* groups of three digits are thousands separators, the comma is the decimal
\* point, the value is rounded to 2 decimals ("1.234,56" gives 1234.56,
\* "R$ 45,00" gives 45.00), and an input holding no number gives 0.
C8_BrazilianAmount ==
    numPc = "done" =>
        /\ numInput = <<"1", ".", "2", "3", "4", ",", "5", "6">> => numResult = 123456
        /\ numInput = <<"R", "$", " ", "4", "5", ",", "0", "0">> => numResult = 4500
        /\ (\A i \in 1..Len(numInput) : NotDigit(numInput[i])) => numResult = 0
        /\ WellFormedAmount(KeepNumeric(numInput))
               => IsAmountOf(numResult, KeepNumeric(numInput))

\* "R$ 1.500,00" was normalized to 1500.00
C8_Witness ==
    /\ numPc = "done"
    /\ numInput = <<"R", "$", " ", "1", ".", "5", "0", "0", ",", "0", "0">>
    /\ numResult = 150000

\* Columns from..to of line are blank
BlankCols(line, from, to) == \A k \in from..to : line[k] = SP

\* The first width characters of s in upper case, then spaces up to width
NameField(s, width) ==
    [k \in 1..width |-> IF k <= Len(s) THEN UpperChar(s[k]) ELSE SP]

\* The account check digit as column 58 holds it: the last digit of the
\* field, 0 when it has none
CheckDigit(c) ==
    LET d == SelectSeq(c.dvConta, IsDigit)
    IN  IF d = <<>> THEN "0" ELSE d[Len(d)]

\* The batch header with the company name in a field of nameWidth columns
\* that starts at column 59, then fillers of 40 and 30, the creation date,
\* a filler of 8 and the record count in 6 digits, all within 240 columns
BatchHeaderLayout(nameWidth) ==
    LET a == 58 + nameWidth
    IN  /\ Len(headerLote) = LineWidth
        /\ headerLote[58] = CheckDigit(company)
        /\ SubSeq(headerLote, 59, a) = NameField(company.empresa, nameWidth)
        /\ BlankCols(headerLote, a + 1, a + 70)
        /\ SubSeq(headerLote, a + 71, a + 78) = formatDateObject(creationDate)
        /\ BlankCols(headerLote, a + 79, a + 86)
        /\ AllDigits(SubSeq(headerLote, a + 87, a + 92))
        /\ StrToNat(SubSeq(headerLote, a + 87, a + 92)) = Len(darfs)
        /\ a + 92 <= LineWidth
        /\ BlankCols(headerLote, a + 93, LineWidth)

\* C15 as stated: in the batch header the company name has a field of 40
\* columns after the account check digit, followed by fillers of 40 and 30,
\* the creation date, a filler of 8 and the 6-digit record count, all
\* within the first 240 columns.
C15_BatchHeaderName40 == encPc = "done" => BatchHeaderLayout(40)

\* C15 amended: the company name has a field of 30 columns (59..88), cut
\* or space-padded to it; the fillers of 40 and 30, the creation date
\* (159..166), the filler of 8 and the record count (175..180) follow, and
\* the rest of the 240 columns is blank.
C15_BatchHeaderName30 == encPc = "done" => BatchHeaderLayout(30)

\* A batch header of three records whose company name is longer than 30
C15_Witness ==
    /\ encPc = "done"
    /\ company = CompanyOdd
    /\ Len(darfs) = 3
    /\ Len(company.empresa) > 30
    /\ SubSeq(headerLote, 175, 180) = <<"0", "0", "0", "0", "0", "3">>
    /\ SubSeq(headerLote, 86, 90) = <<"B", "U", "T", SP, SP>>

----------------------------------------------------------------------------
(* Claims about the extractor, checked under SpecParse *)

Total == <<"1", "0">>

\* Line j of ls is recognized and carries the code
IsFieldLine(ls, j, code) == lineMatch(ls[j]).matched /\ lineMatch(ls[j]).code = code

\* The code that names the field k
KeyCode(k) ==
    CHOOSE c \in DOMAIN textFields \cup DOMAIN numericFields :
        \/ c \in DOMAIN textFields /\ textFields[c] = k
        \/ c \in DOMAIN numericFields /\ numericFields[c] = k

\* The last line before line n that carries code 10, 0 if there is none
PrevFlush(ls, n) ==
    LET js == {j \in 1..(n - 1) : j <= Len(ls) /\ IsFieldLine(ls, j, Total)}
    IN  IF js = {} THEN 0 ELSE CHOOSE j \in js : \A k \in js : k <= j

\* Each field of r holds the value of the last line among from+1..to that
\* carries the field's code, and the default if no such line does
HoldsExactly(r, ls, from, to) ==
    \A k \in TextKeys \cup NumericKeys :
        LET js == {j \in (from + 1)..to : IsFieldLine(ls, j, KeyCode(k))}
            j  == CHOOSE j \in js : \A m \in js : m <= j
        IN  IF js = {} THEN r[k] = (IF k \in TextKeys THEN <<>> ELSE 0)
            ELSE IF k \in TextKeys THEN r[k] = valueOf(ls, j)
            ELSE r[k] \in normalizeNumber(valueOf(ls, j))

LastLine(ls, n) == IF n <= Len(ls) THEN n ELSE Len(ls)

\* C5: a step of the scan at a recognized line of code 10 emits exactly one
\* record and leaves the accumulator empty; every step that emits a record
\* emits one record, with a new id, whose fields are those of the lines of
\* the block at hand since the last line of code 10 (or since the start of
\* the block) and defaults elsewhere, so nothing of an earlier block or of
\* before that flush is in it; and the scan of every block starts with an
\* empty accumulator.
C5_FlushEmitsOneRecordAndResets ==
    [][ /\ (parsePc = "scan" /\ lineIndex <= Len(lines)
              /\ IsFieldLine(lines, lineIndex, Total))
           => /\ Len(parsedDarfs') = Len(parsedDarfs) + 1
              /\ current' = EmptyRecord
        /\ (parsePc = "scan" /\ parsedDarfs' # parsedDarfs)
           => /\ Len(parsedDarfs') = Len(parsedDarfs) + 1
              /\ SubSeq(parsedDarfs', 1, Len(parsedDarfs)) = parsedDarfs
              /\ \A k \in 1..Len(parsedDarfs) :
                     parsedDarfs[k].id # parsedDarfs'[Len(parsedDarfs')].id
              /\ HoldsExactly(parsedDarfs'[Len(parsedDarfs')], lines,
                              PrevFlush(lines, lineIndex), LastLine(lines, lineIndex))
        /\ (parsePc = "block" /\ parsePc' = "scan") => current' = EmptyRecord
      ]_vars

\* Two blocks, each closed by a line of code 10, gave two records: the
\* first with the name and principal of the first block, the second with the
\* name and total of the second block and no principal
C5_Witness ==
    /\ parsePc = "done"
    /\ text = JoinSlips(<<1, 2>>)
    /\ Len(result) = 2
    /\ result[1].nome = <<"A", "n", "a">>
    /\ result[1].valorPrincipal = 150000
    /\ result[1].valorTotal = 150000
    /\ result[2].nome = <<"L", "i">>
    /\ result[2].valorPrincipal = 0
    /\ result[2].valorTotal = 700
    /\ result[1].id # result[2].id

\* No line the scan reads in t is recognized with one of the codes 01..10
NoFieldLine(t) ==
    LET bs == parseBlocks(t)
    IN  \A b \in 1..Len(bs) :
            LET ls == BlockLines(bs[b])
            IN  \A j \in 1..Len(ls) :
                    \A c \in 1..Len(fieldOrder) : ~IsFieldLine(ls, j, fieldOrder[c])

\* C6: when no line of the text is recognized with one of the codes 01..10,
\* parseDarfs returns the empty list, whichever way the text was cut into
\* blocks, and a second call on the same text returns the empty list again.
C6_NoFieldCodesNoRecords ==
    (parsePc = "done" /\ NoFieldLine(text))
        => /\ result = <<>>
           /\ runs > 1 => previous = result

\* The second call on a text cut in two blocks at its headings, with a line
\* the pattern matches under code 99, returned the empty list like the first
C6_Witness ==
    /\ parsePc = "done"
    /\ runs = 2
    /\ text = JoinSlips(<<4, 4>>)
    /\ Len(parseBlocks(text)) = 2
    /\ NoFieldLine(text)
    /\ \E j \in 1..Len(BlockLines(parseBlocks(text)[1])) :
           lineMatch(BlockLines(parseBlocks(text)[1])[j]).matched
    /\ result = <<>>
    /\ previous = <<>>

\* The accumulator holds exactly the fields whose code is on a recognized
\* line among from+1..to, each with the value of the last such line
AccumulatorIs(cur, ls, from, to) ==
    \A k \in TextKeys \cup NumericKeys :
        LET js == {j \in (from + 1)..to : IsFieldLine(ls, j, KeyCode(k))}
            j  == CHOOSE j \in js : \A m \in js : m <= j
        IN  IF js = {} THEN k \notin DOMAIN cur
            ELSE /\ k \in DOMAIN cur
                 /\ IF k \in TextKeys THEN cur[k] = valueOf(ls, j)
                    ELSE cur[k] \in normalizeNumber(valueOf(ls, j))

\* C13: in the scan of a block, a recognized line of a code 01..09 sets the
\* field of its code, replacing the value the accumulator held for it, and
\* emits no record: a step of the scan emits one record at a recognized line
\* of code 10 and none at any other line, so the records emitted during the
\* scan are as many as the lines of code 10; the accumulator, and with it
\* every record emitted, holds for each field the value of the last line of
\* its code since the previous line of code 10.
C13_LastWriteWins ==
    [][ (parsePc = "scan" /\ lineIndex <= Len(lines))
        => /\ AccumulatorIs(current, lines, PrevFlush(lines, lineIndex), lineIndex - 1)
           /\ IF IsFieldLine(lines, lineIndex, Total)
              THEN /\ Len(parsedDarfs') = Len(parsedDarfs) + 1
                   /\ HoldsExactly(parsedDarfs'[Len(parsedDarfs')], lines,
                                   PrevFlush(lines, lineIndex), lineIndex)
              ELSE /\ parsedDarfs' = parsedDarfs
                   /\ AccumulatorIs(current', lines, PrevFlush(lines, lineIndex),
                                    lineIndex)
      ]_vars

\* The slip that gives code 02 twice gave one record, with the second period
C13_Witness ==
    /\ parsePc = "done"
    /\ text = SlipCy
    /\ Len(result) = 1
    /\ result[1].periodoApuracao = <<"0", "2", "/", "2", "0", "2", "4">>
    /\ result[1].nome = <<"C", "y">>

RECURSIVE SkipWord(_, _)
SkipWord(s, p) == IF p <= Len(s) /\ IsLetter(s[p]) THEN SkipWord(s, p + 1) ELSE p

\* A normalized line read as code, label, separator, value, the label being
\* the word after the code: the code in two digits and the trimmed value
\* portion, which is all that follows the separator after that word (a colon
\* or dash, with or without spaces before it, or else the spaces themselves)
LineForm(line) ==
    LET n      == SkipDigits(line, 1) - 1
        codeOk == n \in {1, 2} \/ (n = 3 /\ line[1] = "0")
        digits == IF n = 3 THEN SubSeq(line, 2, 3) ELSE SubSeq(line, 1, n)
        d      == SkipSpaces(line, SkipDashes(line, SkipSpaces(line, n + 1)))
        w      == SkipWord(line, d)
        e      == SkipSpaces(line, w)
        punct  == e <= Len(line) /\ line[e] \in {":", "-"}
    IN  IF codeOk /\ w > d /\ (punct \/ e > w)
        THEN [ok        |-> TRUE,
              code      |-> padStart(digits, 2, "0"),
              separator |-> IF punct THEN line[e] ELSE SP,
              value     |-> trim(SubSeq(line, IF punct THEN e + 1 ELSE e, Len(line)))]
        ELSE [ok |-> FALSE, code |-> <<>>, separator |-> SP, value |-> <<>>]

\* C16: a step of the scan at a line of the form code, label, separator,
\* value with a code 01..06 and a value on the line stores the whole trimmed
\* value portion in the text field of the code, whatever the separator
\* (colon, dash, two spaces or one), the words of a value of several words
\* included.
C16_TextValueStoredWhole ==
    [][ ( /\ parsePc = "scan"
          /\ lineIndex <= Len(lines)
          /\ LineForm(lines[lineIndex]).ok
          /\ LineForm(lines[lineIndex]).code \in DOMAIN textFields
          /\ LineForm(lines[lineIndex]).value # <<>> )
        => LET key == textFields[LineForm(lines[lineIndex]).code]
           IN  /\ key \in DOMAIN current'
               /\ current'[key] = LineForm(lines[lineIndex]).value
      ]_vars

\* The same for the lines whose separator is a colon or a dash
C16_PunctuatedValueStoredWhole ==
    [][ ( /\ parsePc = "scan"
          /\ lineIndex <= Len(lines)
          /\ LineForm(lines[lineIndex]).ok
          /\ LineForm(lines[lineIndex]).separator # SP
          /\ LineForm(lines[lineIndex]).code \in DOMAIN textFields
          /\ LineForm(lines[lineIndex]).value # <<>> )
        => LET key == textFields[LineForm(lines[lineIndex]).code]
           IN  /\ key \in DOMAIN current'
               /\ current'[key] = LineForm(lines[lineIndex]).value
      ]_vars

\* The scan of the block at hand is past its last line
AtEndOfBlock == parsePc = "scan" /\ lineIndex > Len(lines)

\* A line of code 10 is among the lines ls
FlushedByTotal(ls) == \E j \in 1..Len(ls) : IsFieldLine(ls, j, Total)

\* A recognized line of a code 01..09 stands after the last line of code 10
FieldLineAfterLastTotal(ls) ==
    \E j \in (PrevFlush(ls, Len(ls) + 1) + 1)..Len(ls) :
        \E c \in 1..9 : IsFieldLine(ls, j, fieldOrder[c])

\* C14 as stated: at the end of a block one more record is emitted if and
\* only if the accumulator holds a field and no line of code 10 flushed the
\* block; a block flushed by code 10 emits nothing at its end.
C14_EndFlushIffBlockNeverFlushed ==
    [][ AtEndOfBlock
        => /\ (parsedDarfs' # parsedDarfs)
                  <=> (DOMAIN current # {} /\ ~FlushedByTotal(lines))
           /\ FlushedByTotal(lines) => parsedDarfs' = parsedDarfs
      ]_vars

\* C14 amended: at the end of a block the accumulator never holds a total,
\* and exactly one more record is emitted if and only if it holds a field,
\* that is, if and only if a recognized line of a code 01..09 stands after
\* the last line of code 10 of the block (anywhere, when there is none); a
\* block flushed by code 10 emits a further record in just that case.
C14_EndFlushIffAccumulatorHoldsField ==
    [][ AtEndOfBlock
        => /\ "valorTotal" \notin DOMAIN current
           /\ (DOMAIN current # {}) <=> FieldLineAfterLastTotal(lines)
           /\ IF DOMAIN current # {}
              THEN /\ Len(parsedDarfs') = Len(parsedDarfs) + 1
                   /\ SubSeq(parsedDarfs', 1, Len(parsedDarfs)) = parsedDarfs
                   /\ \A k \in TextKeys \cup NumericKeys :
                          parsedDarfs'[Len(parsedDarfs')][k]
                              = Completed(current, 0)[k]
              ELSE parsedDarfs' = parsedDarfs
      ]_vars

\* The slip with a due date after its total gave two records: the one of
\* the total and, at the end of the block, the one of the due date
C14_Witness ==
    /\ parsePc = "done"
    /\ text = SlipLate
    /\ Len(result) = 2
    /\ result[1].valorTotal = 500
    /\ result[1].dataVencimento = <<>>
    /\ result[2].valorTotal = 0
    /\ result[2].dataVencimento = <<"2", "0", "/", "0", "2", "/", "2", "0", "2", "4">>

----------------------------------------------------------------------------
(* Claims about toCnabNumber, checked under SpecCnab *)

\* C11: for every amount and width L in {15, 18}, toCnabNumber returns
\* exactly L characters, all of them digits (no sign, no decimal point),
\* whose value is the amount times 100 rounded to the nearest integer.
C11_FixedWidthDigitsOnly ==
    cnabPc = "done" =>
        /\ Len(cnabOutput) = cnabLength
        /\ AllDigits(cnabOutput)
        /\ StrToNat(cnabOutput) = cnabValue

----------------------------------------------------------------------------
(* Claims about the page, checked under SpecPage and SpecUpload *)

AllFieldsFilled(c) == \A k \in 1..Len(CompanyFields) : c[CompanyFields[k]] # <<>>

\* The names of the empty fields of c, in the order of the form
EmptyFieldNames(c) ==
    LET empty == {k \in 1..Len(CompanyFields) : c[CompanyFields[k]] = <<>>}
    IN  SelectSeq(FieldLabels, LAMBDA label :
            \E k \in empty : FieldLabels[k] = label)

\* C12: in every step of the page a file is produced only when all eight
\* company fields are non-empty and the record list is non-empty, and the
\* file is the encoding of that company and list; a click on generate in any
\* other state produces no file and sets a validation message that names
\* the empty fields, or the absence of records.
C12_FileOnlyWhenProfileCompleteAndRecords ==
    [][ /\ download' # download
           => /\ AllFieldsFilled(pageCompany)
              /\ pageDarfs # <<>>
              /\ download' = generateSantanderRemittance(pageCompany, pageDarfs, Days[clock])
              /\ validationMessage' = SuccessMessage
        /\ (validationMessage' # validationMessage /\ validationMessage' # Null
              /\ ~(AllFieldsFilled(pageCompany) /\ pageDarfs # <<>>))
           => /\ download' = download
              /\ IF AllFieldsFilled(pageCompany)
                 THEN validationMessage' = NoRecordsMessage
                 ELSE validationMessage' = MissingMessage(EmptyFieldNames(pageCompany))
        /\ (validationMessage' # validationMessage /\ validationMessage' = SuccessMessage)
           => AllFieldsFilled(pageCompany) /\ pageDarfs # <<>>
      ]_vars

\* A file was produced for a complete profile, the last field was emptied,
\* and the next click named it and produced nothing new
C12_Witness ==
    /\ download # <<>>
    /\ pageDarfs # <<>>
    /\ pageCompany.cnpj = <<>>
    /\ validationMessage = MissingMessage(<<"CNPJ">>)

----------------------------------------------------------------------------
(* Claims about an upload, checked under SpecUpload *)

\* The records a successful answer holds, each tax ID reduced to its digits
DigitsOnlyTaxIds(records) ==
    [k \in 1..Len(records) |->
        [records[k] EXCEPT !.cnpj = SelectSeq(records[k].cnpj, IsDigit)]]

\* The step that ends an upload: its answer is taken off the wire
UploadCompletes == upload.phase = "answered" /\ upload'.phase # "answered"

\* C17: whatever the page did while the upload was in flight, the step that
\* completes it leaves as the record list exactly the records it returned,
\* tax IDs reduced to digits, when it succeeded, and the empty list with an
\* error message when it failed, nothing of the earlier list being kept;
\* it clears the uploading flag, and the flag, once set, always gets
\* cleared.
C17_UploadReplacesRecords ==
    /\ [][ UploadCompletes
            => /\ isUploading' = FALSE
               /\ IF upload.ok
                  THEN pageDarfs' = DigitsOnlyTaxIds(upload.darfs)
                  ELSE pageDarfs' = <<>> /\ errorMessage' # Null
        ]_vars
    /\ (isUploading ~> ~isUploading)

\* A completed upload of one record stands on the page after a file was
\* generated from the two records of an earlier upload, the tax ID of the
\* record reduced from 12.345 to 12345
C17_Witness ==
    /\ upload = NoUpload
    /\ ~isUploading
    /\ pageDarfs = DigitsOnlyTaxIds(<<UploadedDash>>)
    /\ pageDarfs # <<UploadedDash>>
    /\ Len(download) > 6 * LineWidth
    /\ errorMessage = Null

====
